---- MODULE Spec2Model ----
(***************************************************************************)
(* Model of packages/router/src/directives/router_outlet.ts:               *)
(* RouterOutlet (the outlet activation state machine), the                  *)
(* EmptyOutletComponent pass-through proxy and the relay of its events.     *)
(*                                                                          *)
(* Outlet 0 is the outlet the application template declares.  Every view    *)
(* the outlets create gets a fresh id 1..MaxViews; a view created from the  *)
(* EmptyOutletComponent descriptor hosts one nested RouterOutlet, which     *)
(* carries the id of that view.  The instance of a view (ComponentRef       *)
(* .instance) is identified with the view id.                               *)
(***************************************************************************)
EXTENDS Integers, Sequences, FiniteSets, TLC

\* ---------------------------------------------------------------- bounds
MaxViews == 3
NRoutes == 2

\* ------------------------------------------------------------- constants
NULL == 0
THROW == -1
\* The empty object {} that the route-data accessors return for no route.
EmptyData == -2

\* What parentContexts.getContext(name) can return: null, or a context with
\* its route (or none) and its attachRef (or none).
NoContext == [route |-> THROW, attachRef |-> NULL]

ViewIds == 1..MaxViews
OutletIds == 0..MaxViews
Routes == 1..NRoutes

EmptyOutletComponent == "EmptyOutletComponent"

\* snapshot.routeConfig.component of a route: even routes have no view of
\* their own and carry the EmptyOutletComponent descriptor.
RouteComponent(r) == IF r % 2 = 0 THEN EmptyOutletComponent ELSE "ViewA"

\* snapshot.data of a route.
RouteData(r) == r

\* A ComponentRef: the component class it was created from, whether it is
\* alive (not destroyed), whether the relay sink of activateWith is still
\* subscribed to it, and the outlet that created it (the sink's target).
NoView == [comp |-> "none", alive |-> FALSE, sink |-> FALSE, owner |-> 0]
Destroyed == [comp |-> "destroyed", alive |-> FALSE, sink |-> FALSE, owner |-> 0]

VARIABLES
  activated,        \* RouterOutlet.activated: view id or NULL, per outlet
  activatedRoute,   \* RouterOutlet._activatedRoute: route or NULL, per outlet
  location,         \* the outlet's ViewContainerRef: sequence of view ids
  views,            \* every ComponentRef created so far
  nextView,         \* id of the next view createComponent produces
  activateEvents,   \* what each outlet's activateEvents emitted in the last call
  deactivateEvents, \* what each outlet's deactivateEvents emitted in the last call
  inited,           \* whether ngOnInit has run on the outlet
  lastCall,         \* the last call made on an outlet and how it ended
  registry,         \* the outlet back-references the Context Registry holds
  injectors         \* the OutletInjector each live view was created with

vars == <<activated, activatedRoute, location, views, nextView, activateEvents,
          deactivateEvents, inited, lastCall, registry, injectors>>

\* ------------------------------------------------------------ view tree
IsEmptyOutletComponent(vs, c) == c \in ViewIds /\ vs[c].comp = EmptyOutletComponent

InSeq(s, x) == \E i \in 1..Len(s) : s[i] = x

\* The outlet whose container holds view v, THROW when there is none.
HostOutlet(v) ==
  IF \E o \in OutletIds : InSeq(location[o], v)
  THEN CHOOSE o \in OutletIds : InSeq(location[o], v)
  ELSE THROW

\* A view handed out by detach() and not inserted anywhere since.
Detached(h) == h \in ViewIds /\ views[h].alive /\ HostOutlet(h) = THROW

RECURSIVE Rendered(_)
\* The outlets of the rendered tree, the ones callers and change detection
\* reach: outlet 0, and the nested outlet of every live proxy that sits in the
\* container of a rendered outlet.
Rendered(o) ==
  IF o = 0 THEN TRUE
  ELSE /\ views[o].comp = EmptyOutletComponent
       /\ views[o].alive
       /\ HostOutlet(o) # THROW
       /\ Rendered(HostOutlet(o))

RECURSIVE Subtree(_, _)
\* The views ComponentRef.destroy() of v tears down: v and, below a proxy,
\* whatever its nested outlet's container holds.
Subtree(v, fuel) ==
  IF fuel = 0 THEN {v}
  ELSE {v} \cup (IF views[v].comp = EmptyOutletComponent
                 THEN UNION {Subtree(location[v][i], fuel - 1) : i \in 1..Len(location[v])}
                 ELSE {})

Remove(s, x) == SelectSeq(s, LAMBDA y : y # x)

DestroyViewsKeepSink(v) ==
  [w \in ViewIds |-> IF w \in Subtree(v, MaxViews)
                     THEN [views[w] EXCEPT !.alive = FALSE]
                     ELSE views[w]]

\* ComponentRef.destroy(): the views of the subtree die; a proxy's
\* ngOnDestroy fires destroy$, which unsubscribes the relay sink.
DestroyViews(v) ==
  [w \in ViewIds |-> IF w \in Subtree(v, MaxViews) THEN Destroyed ELSE views[w]]

\* A destroyed view leaves the container it was inserted in.
DestroyLocation(v) == [o \in OutletIds |-> Remove(location[o], v)]

\* ---------------------------------------------------------------- events
NoEvents == [o \in OutletIds |-> <<>>]

RelaysNever(vs, o) == FALSE

\* Whether an event of nested outlet o travels on: the template binding of its
\* live proxy calls the proxy's activate/deactivate, which emits on the proxy's
\* channel, and the sink, while subscribed, re-emits on the owner.
Relays(vs, o) == IF o = 0 THEN FALSE ELSE vs[o].alive /\ vs[o].sink

\* Lines 181-184: the sink the owner of proxy p subscribed to p's channels is
\* still subscribed.
Subscribed(vs, p) == vs[p].sink

RECURSIVE EmitOn(_, _, _, _)
\* EventEmitter.emit(ev) on outlet o and what the relay chain makes of it.
EmitOn(vs, events, o, ev) ==
  LET e1 == [events EXCEPT ![o] = Append(@, ev)]
  IN IF Relays(vs, o) THEN EmitOn(vs, e1, vs[o].owner, ev) ELSE e1

\* -------------------------------------------------------- outlet names
PRIMARY_OUTLET == "primary"

\* The name attribute of the outlet's element, "" when it has none: the
\* application names outlet 0; the outlet of the proxy's template (line 222)
\* carries no name.
NameAttribute(o) == IF o = 0 THEN "aux" ELSE ""

\* Line 76: this.name = name || PRIMARY_OUTLET
name(o) == IF NameAttribute(o) = "" THEN PRIMARY_OUTLET ELSE NameAttribute(o)

\* ------------------------------------------------------ context registry
\* A registry scope (a ChildrenOutletContexts) is identified by the outlet
\* names that lead to it from the root scope.
RootScope == <<>>

\* getOrCreateContext(n).children of scope s: one context, and one children
\* scope, per name of a scope.
ChildrenOf(s, n) == Append(s, n)

\* onChildOutletCreated(n, o) on scope s: the context of name n refers to o.
Register(reg, s, n, o) ==
  {e \in reg : ~(e.scope = s /\ e.name = n)} \cup {[scope |-> s, name |-> n, outlet |-> o]}

\* onChildOutletDestroyed(n) on scope s: the context of name n refers to no
\* outlet.
Deregister(reg, s, n) == {e \in reg : ~(e.scope = s /\ e.name = n)}

\* getContext(n).outlet of scope s are the outlets of Registered(s, n).
Registered(s, n) == {e.outlet : e \in {x \in registry : x.scope = s /\ x.name = n}}

\* ------------------------------------------------------- OutletInjector
NoInjector == [route |-> NULL, childContexts |-> RootScope]

Tokens == {"ActivatedRoute", "ChildrenOutletContexts", "ChangeDetectorRef", "Unknown"}

\* What the parent injector (location.injector) provides itself.
ParentProvides == {"ActivatedRoute", "ChildrenOutletContexts", "ChangeDetectorRef"}

Answer(from, token, value) == [from |-> from, token |-> token, value |-> value]

NotFoundValues == {Answer("caller", "", d) : d \in {NULL, THROW}}

\* parent.get(token, notFoundValue)
ParentGet(token, notFoundValue) ==
  IF token \in ParentProvides THEN Answer("parent", token, NULL) ELSE notFoundValue

OutletInjectorGetDelegatesAll(inj, token, notFoundValue) == ParentGet(token, notFoundValue)

\* OutletInjector.get
OutletInjectorGet(inj, token, notFoundValue) ==
  IF token = "ActivatedRoute"
  THEN Answer("OutletInjector", token, inj.route)
  ELSE IF token = "ChildrenOutletContexts"
       THEN Answer("OutletInjector", token, inj.childContexts)
       ELSE ParentGet(token, notFoundValue)

\* RouterOutlet.parentContexts: outlet 0 is constructed in the root scope; a
\* nested outlet gets the ChildrenOutletContexts its proxy's injector answers.
parentContexts(o) ==
  IF o = 0 THEN RootScope
  ELSE OutletInjectorGet(injectors[o], "ChildrenOutletContexts",
                         Answer("caller", "", NULL)).value

\* -------------------------------------------------------------- accessors
isActivated(o) == activated[o] # NULL

\* EmptyOutletComponent.outlet, the @ViewChild(RouterOutlet) of proxy p, is
\* resolved (non-null) once the change detection pass that initialises the
\* nested outlet has run.
outlet(p) == inited[p]

RECURSIVE OutletComponent(_)
\* RouterOutlet.component, with EmptyOutletComponent.component inlined.
OutletComponent(o) ==
  IF activated[o] = NULL THEN THROW
  ELSE LET c == activated[o]
       IN IF IsEmptyOutletComponent(views, c)
          THEN (IF ~outlet(c) THEN NULL ELSE OutletComponent(c))
          ELSE c

\* EmptyOutletComponent.component
ProxyComponent(p) == IF ~outlet(p) THEN NULL ELSE OutletComponent(p)

\* What lines 107-111 make of a view's instance: the component an outlet
\* reports while view h is its activated view.
InstanceComponent(h) == IF IsEmptyOutletComponent(views, h) THEN ProxyComponent(h) ELSE h

\* RouterOutlet.activatedRoute
OutletActivatedRoute(o) == IF activated[o] = NULL THEN THROW ELSE activatedRoute[o]

\* EmptyOutletComponent.activatedRoute
ProxyActivatedRoute(p) == IF ~outlet(p) THEN NULL ELSE OutletActivatedRoute(p)

\* RouterOutlet.activatedRouteData
activatedRouteData(o) ==
  IF activatedRoute[o] # NULL THEN RouteData(activatedRoute[o]) ELSE EmptyData

\* EmptyOutletComponent.activatedRouteData
ProxyActivatedRouteData(p) ==
  LET r == ProxyActivatedRoute(p)
  IN IF r = THROW THEN THROW ELSE IF r = NULL THEN EmptyData ELSE RouteData(r)

\* ------------------------------------------------------------------ calls
\* How a call ended: the error it threw ("none" when it returned) and the
\* handle it returned (detach only).
Ended(op, err, ret) == [op |-> op, err |-> err, ret |-> ret]

\* resolveComponentFactory (line 169) or createComponent (line 172) threw.
CollaboratorError == "CollaboratorError"

ProducedProxyNever(vs, v) == FALSE

\* Line 180: the component createComponent produced is the proxy.
ProducedProxy(vs, v) == IsEmptyOutletComponent(vs, v)

NoActivationCheck(o) == FALSE

\* Lines 162-164: the precondition of activateWith.
AlreadyActivated(o) == isActivated(o)

\* RouterOutlet.activateWith.  outcome is what the collaborators do:
\* "resolve" = resolveComponentFactory throws, "create" = createComponent
\* throws, "ok" = both return.
activateWith(op, o, r, outcome) ==
  /\ deactivateEvents' = NoEvents
  /\ IF AlreadyActivated(o)
     THEN /\ lastCall' = Ended(op, "AlreadyActivated", NULL)
          /\ activateEvents' = NoEvents
          /\ UNCHANGED <<activated, activatedRoute, location, views, nextView,
                         registry, injectors>>
     ELSE /\ activatedRoute' = [activatedRoute EXCEPT ![o] = r]
          /\ CASE outcome = "resolve" ->
                    /\ lastCall' = Ended(op, CollaboratorError, NULL)
                    /\ activateEvents' = NoEvents
                    /\ UNCHANGED <<activated, location, views, nextView,
                                   registry, injectors>>
               [] outcome = "create" ->
                    /\ lastCall' = Ended(op, CollaboratorError, NULL)
                    /\ activateEvents' = NoEvents
                    /\ UNCHANGED <<activated, location, views, nextView,
                                   registry, injectors>>
               [] OTHER ->
                    LET v == nextView
                        isProxy == RouteComponent(r) = EmptyOutletComponent
                        vs == [views EXCEPT ![v] =
                                 [comp |-> RouteComponent(r), alive |-> TRUE,
                                  sink |-> isProxy, owner |-> o]]
                        childContexts == ChildrenOf(parentContexts(o), name(o))
                        injector == [route |-> r, childContexts |-> childContexts]
                    IN /\ nextView <= MaxViews
                       /\ injectors' = [injectors EXCEPT ![v] = injector]
                       /\ registry' =
                            IF isProxy
                            THEN Register(registry,
                                          OutletInjectorGet(injector, "ChildrenOutletContexts",
                                                            Answer("caller", "", NULL)).value,
                                          name(v), v)
                            ELSE registry
                       /\ views' = vs
                       /\ nextView' = nextView + 1
                       /\ location' = [location EXCEPT ![o] = Append(@, v)]
                       /\ activated' = [activated EXCEPT ![o] = v]
                       /\ activateEvents' =
                            IF ProducedProxy(vs, v)
                            THEN NoEvents
                            ELSE EmitOn(vs, NoEvents, o, v)
                       /\ lastCall' = Ended(op, "none", NULL)

attachAnnounces(op, o, ref, r) ==
  /\ activated' = [activated EXCEPT ![o] = ref]
  /\ activatedRoute' = [activatedRoute EXCEPT ![o] = r]
  /\ location' = [location EXCEPT ![o] = Append(@, ref)]
  /\ lastCall' = Ended(op, "none", NULL)
  /\ activateEvents' = EmitOn(views, NoEvents, o, ref)
  /\ deactivateEvents' = NoEvents
  /\ UNCHANGED <<views, nextView, registry, injectors>>

attachKeepsRoute(op, o, ref, r) ==
  /\ activated' = [activated EXCEPT ![o] = ref]
  /\ location' = [location EXCEPT ![o] = Append(@, ref)]
  /\ lastCall' = Ended(op, "none", NULL)
  /\ activateEvents' = NoEvents
  /\ deactivateEvents' = NoEvents
  /\ UNCHANGED <<activatedRoute, views, nextView, registry, injectors>>

\* RouterOutlet.attach
attach(op, o, ref, r) ==
  /\ activated' = [activated EXCEPT ![o] = ref]
  /\ activatedRoute' = [activatedRoute EXCEPT ![o] = r]
  /\ location' = [location EXCEPT ![o] = Append(@, ref)]
  /\ lastCall' = Ended(op, "none", NULL)
  /\ activateEvents' = NoEvents
  /\ deactivateEvents' = NoEvents
  /\ UNCHANGED <<views, nextView, registry, injectors>>

LocationDetachNothing(s) == s

\* ViewContainerRef.detach() without an index takes the last view out.
LocationDetach(s) == SubSeq(s, 1, Len(s) - 1)

\* RouterOutlet.detach
detach(o) ==
  /\ activateEvents' = NoEvents
  /\ deactivateEvents' = NoEvents
  /\ IF ~isActivated(o)
     THEN /\ lastCall' = Ended("detach", "NotActivated", NULL)
          /\ UNCHANGED <<activated, activatedRoute, location, views, nextView,
                         registry, injectors>>
     ELSE /\ location' = [location EXCEPT ![o] = LocationDetach(@)]
          /\ activated' = [activated EXCEPT ![o] = NULL]
          /\ activatedRoute' = [activatedRoute EXCEPT ![o] = NULL]
          /\ lastCall' = Ended("detach", "none", activated[o])
          /\ UNCHANGED <<views, nextView, registry, injectors>>

\* The nested outlets that go away with the views of Subtree(v): gone
\* objects no caller can reach, whose fields the model stops recording.
Gone(v) == {w \in Subtree(v, MaxViews) : views[w].comp = EmptyOutletComponent}

Forget(f, gone, init) == [x \in OutletIds |-> IF x \in gone THEN init ELSE f[x]]

\* RouterOutlet.ngOnDestroy of every outlet of gone: each deregisters its
\* name in its parent scope.
RECURSIVE DeregisterAll(_, _)
DeregisterAll(reg, gone) ==
  IF gone = {} THEN reg
  ELSE LET p == CHOOSE x \in gone : TRUE
       IN DeregisterAll(Deregister(reg, parentContexts(p), name(p)), gone \ {p})

deactivateKeepsRoute(o) ==
  /\ activateEvents' = NoEvents
  /\ IF ~isActivated(o)
     THEN /\ lastCall' = Ended("deactivate", "none", NULL)
          /\ deactivateEvents' = NoEvents
          /\ UNCHANGED <<activated, activatedRoute, location, views, nextView, inited,
                         registry, injectors>>
     ELSE LET c == OutletComponent(o)
              vs == DestroyViews(activated[o])
              gone == Gone(activated[o])
          IN IF c = THROW
             THEN /\ lastCall' = Ended("deactivate", "NotActivated", NULL)
                  /\ deactivateEvents' = NoEvents
                  /\ UNCHANGED <<activated, activatedRoute, location, views, nextView,
                                 inited, registry, injectors>>
             ELSE /\ views' = vs
                  /\ location' = Forget(DestroyLocation(activated[o]), gone, <<>>)
                  /\ activated' = Forget([activated EXCEPT ![o] = NULL], gone, NULL)
                  /\ activatedRoute' = Forget(activatedRoute, gone, NULL)
                  /\ deactivateEvents' =
                       IF ~IsEmptyOutletComponent(views, c)
                       THEN EmitOn(vs, NoEvents, o, c)
                       ELSE NoEvents
                  /\ inited' = Forget(inited, gone, FALSE)
                  /\ registry' = DeregisterAll(registry, gone)
                  /\ injectors' = [w \in ViewIds |->
                                     IF w \in Subtree(activated[o], MaxViews)
                                     THEN NoInjector
                                     ELSE injectors[w]]
                  /\ lastCall' = Ended("deactivate", "none", NULL)
                  /\ UNCHANGED nextView

\* RouterOutlet.deactivate
deactivate(o) ==
  /\ activateEvents' = NoEvents
  /\ IF ~isActivated(o)
     THEN /\ lastCall' = Ended("deactivate", "none", NULL)
          /\ deactivateEvents' = NoEvents
          /\ UNCHANGED <<activated, activatedRoute, location, views, nextView, inited,
                         registry, injectors>>
     ELSE LET c == OutletComponent(o)
              vs == DestroyViews(activated[o])
              gone == Gone(activated[o])
          IN IF c = THROW
             THEN /\ lastCall' = Ended("deactivate", "NotActivated", NULL)
                  /\ deactivateEvents' = NoEvents
                  /\ UNCHANGED <<activated, activatedRoute, location, views, nextView,
                                 inited, registry, injectors>>
             ELSE /\ views' = vs
                  /\ location' = Forget(DestroyLocation(activated[o]), gone, <<>>)
                  /\ activated' = Forget([activated EXCEPT ![o] = NULL], gone, NULL)
                  /\ activatedRoute' =
                       Forget([activatedRoute EXCEPT ![o] = NULL], gone, NULL)
                  /\ deactivateEvents' =
                       IF ~IsEmptyOutletComponent(views, c)
                       THEN EmitOn(vs, NoEvents, o, c)
                       ELSE NoEvents
                  /\ inited' = Forget(inited, gone, FALSE)
                  /\ registry' = DeregisterAll(registry, gone)
                  /\ injectors' = [w \in ViewIds |->
                                     IF w \in Subtree(activated[o], MaxViews)
                                     THEN NoInjector
                                     ELSE injectors[w]]
                  /\ lastCall' = Ended("deactivate", "none", NULL)
                  /\ UNCHANGED nextView

ngOnInitIgnoresAttachRef(o, context, outcome) ==
  IF activated[o] = NULL /\ context # NoContext /\ context.route # NULL
  THEN activateWith("activateWith", o, context.route, outcome)
  ELSE /\ lastCall' = Ended("ngOnInit", "none", NULL)
       /\ activateEvents' = NoEvents
       /\ deactivateEvents' = NoEvents
       /\ UNCHANGED <<activated, activatedRoute, location, views, nextView,
                      registry, injectors>>

\* RouterOutlet.ngOnInit; context is what getContext(this.name) returns.
ngOnInit(o, context, outcome) ==
  IF activated[o] = NULL /\ context # NoContext /\ context.route # NULL
  THEN IF context.attachRef # NULL
       THEN attach("attach", o, context.attachRef, context.route)
       ELSE activateWith("activateWith", o, context.route, outcome)
  ELSE /\ lastCall' = Ended("ngOnInit", "none", NULL)
       /\ activateEvents' = NoEvents
       /\ deactivateEvents' = NoEvents
       /\ UNCHANGED <<activated, activatedRoute, location, views, nextView,
                      registry, injectors>>

\* ---------------------------------------------------------------- actions
\* The callers of the outlet are the navigation engine, the reuse strategy
\* and change detection.  They reach the outlets of the rendered tree only.
Outcomes == {"ok", "resolve", "create"}

\* The collaborators are reached, and can fail, only past the activation
\* check, and never for the router's own EmptyOutletComponent.
OutcomesFor(o, r) ==
  IF isActivated(o) \/ r = NULL \/ RouteComponent(r) = EmptyOutletComponent
  THEN {"ok"}
  ELSE Outcomes

\* The handles a caller may hand to attach on outlet o with route r: the
\* reuse strategy brings a handle detach returned back to the outlet it came
\* from, with whatever route the navigation engine supplies.
Attachable(o, r) ==
  {h \in ViewIds : Detached(h) /\ views[h].owner = o}

ActivateWith(o, r, outcome) ==
  /\ Rendered(o)
  /\ activateWith("activateWith", o, r, outcome)
  /\ UNCHANGED inited

Attach(o, h, r) ==
  /\ Rendered(o)
  /\ h \in Attachable(o, r)
  /\ attach("attach", o, h, r)
  /\ UNCHANGED inited

Detach(o) ==
  /\ Rendered(o)
  /\ detach(o)
  /\ UNCHANGED inited

Deactivate(o) ==
  /\ Rendered(o)
  /\ deactivate(o)

\* The contexts the registry can hold for outlet o when it initialises: none,
\* one without a route, or one in which the navigation engine stored a route
\* and, when the reuse strategy has one, the handle of a detached view.
ContextsFor(o) ==
  {NoContext, [route |-> NULL, attachRef |-> NULL]} \cup
  {[route |-> r, attachRef |-> h] : r \in Routes, h \in {NULL}} \cup
  UNION {{[route |-> r, attachRef |-> h] : h \in Attachable(o, r)} : r \in Routes}

\* Angular runs ngOnInit once, in the first change detection pass over the
\* outlet, top-down; the same pass resolves the @ViewChild of the proxy that
\* hosts it.
NgOnInit(o, context, outcome) ==
  /\ Rendered(o)
  /\ ~inited[o]
  /\ IF o = 0 THEN TRUE ELSE inited[HostOutlet(o)]
  /\ ngOnInit(o, context, outcome)
  /\ inited' = [inited EXCEPT ![o] = TRUE]

Init ==
  /\ activated = [o \in OutletIds |-> NULL]
  /\ activatedRoute = [o \in OutletIds |-> NULL]
  /\ location = [o \in OutletIds |-> <<>>]
  /\ views = [v \in ViewIds |-> NoView]
  /\ nextView = 1
  /\ activateEvents = NoEvents
  /\ deactivateEvents = NoEvents
  /\ inited = [o \in OutletIds |-> FALSE]
  /\ lastCall = Ended("init", "none", NULL)
  /\ registry = Register({}, RootScope, name(0), 0)
  /\ injectors = [v \in ViewIds |-> NoInjector]

Next ==
  \/ \E o \in OutletIds, r \in Routes :
       \E outcome \in OutcomesFor(o, r) : ActivateWith(o, r, outcome)
  \/ \E o \in OutletIds, r \in Routes :
       \E h \in Attachable(o, r) : Attach(o, h, r)
  \/ \E o \in OutletIds : Detach(o)
  \/ \E o \in OutletIds : Deactivate(o)
  \/ \E o \in OutletIds :
       \E context \in ContextsFor(o) :
         \E outcome \in (IF context.attachRef = NULL
                          THEN OutcomesFor(o, IF context = NoContext THEN NULL ELSE context.route)
                          ELSE {"ok"}) :
           NgOnInit(o, context, outcome)

Spec == Init /\ [][Next]_vars

TypeOK ==
  /\ activated \in [OutletIds -> 0..MaxViews]
  /\ activatedRoute \in [OutletIds -> 0..NRoutes]
  /\ nextView \in 1..(MaxViews + 1)
  /\ inited \in [OutletIds -> BOOLEAN]
  /\ \A e \in registry : e.outlet \in OutletIds /\ e.name \in {PRIMARY_OUTLET, "aux"}
  /\ \A v \in ViewIds : injectors[v].route \in 0..NRoutes

\* ------------------------------------------------------------- the steps
\* The step is a call of activateWith(r, ...) on outlet o, made directly or by
\* ngOnInit for the pending route of a context without a detached view.
CallsActivateWith(o, r) ==
  /\ lastCall'.op = "activateWith"
  /\ \/ \E outcome \in Outcomes : ActivateWith(o, r, outcome)
     \/ \E outcome \in Outcomes :
          ~isActivated(o) /\ NgOnInit(o, [route |-> r, attachRef |-> NULL], outcome)

\* The step is a call of attach(h, r) on outlet o, directly or by ngOnInit.
CallsAttach(o, h, r) ==
  /\ lastCall'.op = "attach"
  /\ h \in Attachable(o, r)
  /\ \/ Attach(o, h, r)
     \/ ~isActivated(o) /\ NgOnInit(o, [route |-> r, attachRef |-> h], "ok")

\* The outlet is still there after the step.
StillThere(o) == IF o = 0 THEN TRUE ELSE views'[o].alive

\* ------------------------------------------------------------------- C1
\* C1: isActivated is false initially, true after a successful activate or
\* attach, false after the next deactivate or detach, and no other step,
\* a failed call included, changes it.
C1_IsActivatedFollowsCalls ==
  /\ \A o \in OutletIds : ~isActivated(o)
  /\ [][\A o \in OutletIds :
          LET activates == \/ \E r \in Routes : CallsActivateWith(o, r)
                           \/ \E r \in Routes, h \in ViewIds : CallsAttach(o, h, r)
              deactivates == \/ lastCall'.op = "deactivate" /\ Deactivate(o)
                             \/ lastCall'.op = "detach" /\ Detach(o)
          IN /\ activates =>
                  ((activated'[o] # NULL) = (activated[o] # NULL \/ lastCall'.err = "none"))
             /\ deactivates => activated'[o] = NULL
             /\ (~activates /\ ~deactivates /\ StillThere(o)) =>
                  ((activated'[o] # NULL) = (activated[o] # NULL))]_vars

\* ------------------------------------------------------------------- C2
\* C2: activateWith on an Active outlet fails with AlreadyActivated and
\* changes nothing: same view, same route, same container, no view created,
\* nothing emitted.
C2_ActivateOnActiveFails ==
  [][\A o \in OutletIds, r \in Routes :
       (activated[o] # NULL /\ CallsActivateWith(o, r)) =>
          /\ lastCall'.err = "AlreadyActivated"
          /\ UNCHANGED <<activated, activatedRoute, location, views, nextView>>
          /\ activateEvents' = NoEvents
          /\ deactivateEvents' = NoEvents]_vars

\* An activateWith has just failed on an Active outlet.
C2_Witness ==
  /\ lastCall.op = "activateWith"
  /\ lastCall.err = "AlreadyActivated"
  /\ \E o \in OutletIds : activated[o] # NULL /\ activatedRoute[o] # NULL

\* ------------------------------------------------------------------- C3
\* C3: in every reachable state the activated view of an outlet is non-null
\* if and only if its recorded route is non-null.
C3_ActivatedIffRoute ==
  \A o \in OutletIds : (activated[o] # NULL) <=> (activatedRoute[o] # NULL)

\* ------------------------------------------------------------------- C4
\* C4: an activateWith on an Inactive outlet that fails, at whichever step,
\* leaves no activated view and no recorded route, and activatedRouteData
\* returns the empty object.
C4_FailedActivateLeavesInactive ==
  [][\A o \in OutletIds, r \in Routes :
       (activated[o] = NULL /\ lastCall'.err # "none" /\ CallsActivateWith(o, r)) =>
          /\ activated'[o] = NULL
          /\ activatedRoute'[o] = NULL
          /\ activatedRouteData(o)' = EmptyData]_vars

\* ------------------------------------------------------------------- C5
\* C5: deactivate on an Active outlet always completes and leaves it Inactive
\* with no route and its view destroyed, also when the view is the proxy and
\* the nested outlet is unresolved, Inactive or Active; on an Inactive outlet
\* it is a no-op that emits nothing.
C5_DeactivateCompletes ==
  [][\A o \in OutletIds :
       (lastCall'.op = "deactivate" /\ Deactivate(o)) =>
          IF activated[o] # NULL
          THEN /\ lastCall'.err = "none"
               /\ activated'[o] = NULL
               /\ activatedRoute'[o] = NULL
               /\ ~views'[activated[o]].alive
          ELSE /\ lastCall'.err = "none"
               /\ UNCHANGED <<activated, activatedRoute, location, views, nextView>>
               /\ deactivateEvents' = NoEvents]_vars

\* ------------------------------------------------------------------- C6
\* C6: deactivate on an Active outlet emits exactly one deactivate
\* notification carrying the pre-destruction component, unless the
\* destroyed component is the proxy, in which case it emits none.
C6_DeactivateEmission ==
  [][\A o \in OutletIds :
       (lastCall'.op = "deactivate" /\ activated[o] # NULL /\ Deactivate(o)) =>
          deactivateEvents'[o] =
             IF IsEmptyOutletComponent(views, activated[o])
             THEN <<>>
             ELSE <<activated[o]>>]_vars

\* ------------------------------------------------------------------- C7
\* Every outlet from o up to the outermost one is the nested outlet of the
\* live proxy its host outlet has activated.
RECURSIVE ProxyChain(_, _)
ProxyChain(o, fuel) ==
  IF o = 0 THEN TRUE
  ELSE IF fuel = 0 THEN FALSE
  ELSE /\ views[o].alive
       /\ views[o].comp = EmptyOutletComponent
       /\ activated[views[o].owner] = o
       /\ ProxyChain(views[o].owner, fuel - 1)

\* C7: when a real view is activated in a nested outlet, at any depth k >= 1
\* of proxies below the outermost outlet, a subscriber of the outermost
\* outlet observes exactly one activate notification, carrying that view.
C7_OneActivateAtOutermost ==
  [][\A o \in OutletIds \ {0}, r \in Routes :
       (/\ activated[o] = NULL
        /\ lastCall'.err = "none"
        /\ RouteComponent(r) # EmptyOutletComponent
        /\ ProxyChain(o, MaxViews)
        /\ CallsActivateWith(o, r)) =>
          activateEvents'[0] = <<activated'[o]>>]_vars

\* A real view activated two proxies below the outermost outlet has just
\* been announced once at the outermost outlet.
C7_Witness ==
  \E v \in ViewIds :
    /\ views[v].alive
    /\ views[v].comp # EmptyOutletComponent
    /\ views[v].owner # 0
    /\ views[views[v].owner].owner # 0
    /\ ProxyChain(views[v].owner, MaxViews)
    /\ activated[views[v].owner] = v
    /\ lastCall = Ended("activateWith", "none", NULL)
    /\ activateEvents[0] = <<v>>

\* ------------------------------------------------------------------- C8
\* C8: a successful activateWith that produces a real view emits exactly one
\* activate notification on that outlet, carrying the new instance; one that
\* produces the proxy emits none.
C8_ActivateEmission ==
  [][\A o \in OutletIds, r \in Routes :
       (activated[o] = NULL /\ lastCall'.err = "none" /\ CallsActivateWith(o, r)) =>
          /\ activated'[o] = nextView
          /\ views'[nextView].comp = RouteComponent(r)
          /\ activateEvents'[o] =
                IF RouteComponent(r) = EmptyOutletComponent
                THEN <<>>
                ELSE <<nextView>>]_vars

\* An outlet has just activated the proxy and nothing was emitted.
C8_Witness ==
  /\ lastCall = Ended("activateWith", "none", NULL)
  /\ activateEvents = NoEvents
  /\ \E o \in OutletIds :
       /\ IsEmptyOutletComponent(views, activated[o])
       /\ views[activated[o]].alive
       /\ activated[activated[o]] = NULL
       /\ ~inited[activated[o]]

\* ------------------------------------------------------------------- C9
\* C9: on an outlet whose activated view is the proxy, the component
\* accessor and the proxy's route and route-data accessors return the
\* absent sentinel, without failing, while the nested outlet is unresolved
\* or Inactive, and the nested outlet's component once it is Active.
C9_ProxyAccessors ==
  \A o \in OutletIds :
    (IsEmptyOutletComponent(views, activated[o]) /\ Rendered(o)) =>
       LET p == activated[o]
       IN IF ~outlet(p) \/ activated[p] = NULL
          THEN /\ OutletComponent(o) = NULL
               /\ ProxyComponent(p) = NULL
               /\ ProxyActivatedRoute(p) = NULL
               /\ ProxyActivatedRouteData(p) = EmptyData
          ELSE OutletComponent(o) = OutletComponent(p)

\* ------------------------------------------------------------------ C10
\* C10: detach on an Active outlet returns the activated view, takes it out
\* of the container without destroying it and clears the activated view and
\* the route; on an Inactive outlet it fails with NotActivated.
C10_Detach ==
  [][\A o \in OutletIds :
       (lastCall'.op = "detach" /\ Detach(o)) =>
          IF activated[o] # NULL
          THEN /\ lastCall' = Ended("detach", "none", activated[o])
               /\ location' = [location EXCEPT ![o] = Remove(@, activated[o])]
               /\ views' = views
               /\ views'[activated[o]].alive
               /\ activated' = [activated EXCEPT ![o] = NULL]
               /\ activatedRoute' = [activatedRoute EXCEPT ![o] = NULL]
          ELSE /\ lastCall' = Ended("detach", "NotActivated", NULL)
               /\ UNCHANGED <<activated, activatedRoute, location, views, nextView>>]_vars

\* A detach has just handed back a live view that no container holds.
C10_Witness ==
  /\ lastCall.op = "detach"
  /\ lastCall.err = "none"
  /\ Detached(lastCall.ret)
  /\ \A o \in OutletIds : activated[o] # lastCall.ret

\* ------------------------------------------------------------------ C11
\* C11: detach followed immediately by attach(h, r), h the handle detach
\* returned and r any route, makes the outlet Active again with the
\* component it reported before the detach and with route r, and creates no
\* view.
C11_DetachThenAttach ==
  /\ [][\A o \in OutletIds, h \in ViewIds :
          (lastCall'.op = "detach" /\ activated[o] = h /\ Detach(o)) =>
             InstanceComponent(h)' = OutletComponent(o)]_vars
  /\ [][\A o \in OutletIds, h \in ViewIds, r \in Routes :
          (lastCall = Ended("detach", "none", h) /\ CallsAttach(o, h, r)) =>
             /\ activated'[o] = h
             /\ OutletComponent(o)' = InstanceComponent(h)
             /\ activatedRoute'[o] = r
             /\ views' = views
             /\ nextView' = nextView]_vars

\* A view is back in its outlet right after a detach and an attach, under a
\* route whose configured component is not the one the view was built from.
C11_Witness ==
  /\ lastCall.op = "attach"
  /\ \E o \in OutletIds :
       /\ activated[o] # NULL
       /\ views[activated[o]].alive
       /\ location[o] = <<activated[o]>>
       /\ activatedRoute[o] # NULL
       /\ RouteComponent(activatedRoute[o]) # views[activated[o]].comp

\* ------------------------------------------------------------------ C12
\* C12: while the outlet is Inactive each of isActivated, component and
\* activatedRoute fails with NotActivated, and activatedRouteData returns the
\* empty data object.
C12_QueriesWhenInactive ==
  \A o \in OutletIds :
    (Rendered(o) /\ activated[o] = NULL) =>
       /\ isActivated(o) \notin BOOLEAN
       /\ OutletComponent(o) = THROW
       /\ OutletActivatedRoute(o) = THROW
       /\ activatedRouteData(o) = EmptyData

\* ------------------------------------------------------------------ C13
\* C13: in every reachable state activatedRouteData returns the empty
\* mapping when the outlet is Inactive (initially, after deactivate, after
\* detach, after a failed activate) and the data of the route it was
\* activated or attached with when it is Active.
C13_RouteDataFollowsState ==
  /\ [](\A o \in OutletIds :
          activated[o] = NULL => activatedRouteData(o) = EmptyData)
  /\ [][\A o \in OutletIds, r \in Routes :
          (activated'[o] # NULL /\ lastCall'.err = "none" /\
             (CallsActivateWith(o, r) \/ \E h \in ViewIds : CallsAttach(o, h, r))) =>
                activatedRouteData(o)' = RouteData(r)]_vars

\* ------------------------------------------------------------------ C14
\* The payloads an outlet can emit.
Payloads == {NULL} \cup ViewIds

\* C14: while a proxy is alive, every notification of its channels is
\* re-emitted on the outlet that activated it exactly once; once the proxy
\* has been destroyed its relay is released and nothing emitted on its
\* channels reaches that outlet.
C14_RelayFollowsProxyLife ==
  /\ [](\A p \in ViewIds :
          (views[p].alive /\ views[p].comp = EmptyOutletComponent) =>
             /\ Subscribed(views, p)
             /\ \A ev \in Payloads :
                  EmitOn(views, NoEvents, p, ev)[views[p].owner] = <<ev>>)
  /\ [][\A p \in ViewIds :
          (views[p].alive /\ views[p].comp = EmptyOutletComponent) =>
             IF views'[p].alive
             THEN /\ activateEvents'[p] # <<>> =>
                       activateEvents'[views[p].owner] = activateEvents'[p]
                  /\ deactivateEvents'[p] # <<>> =>
                       deactivateEvents'[views[p].owner] = deactivateEvents'[p]
             ELSE /\ ~Subscribed(views', p)
                  /\ \A ev \in Payloads :
                       EmitOn(views', NoEvents, p, ev)[views[p].owner] = <<>>]_vars

\* The deactivate of a nested outlet has just destroyed a proxy, and the
\* notification it emitted went up through the live proxy that hosts it.
C14_Witness ==
  /\ lastCall = Ended("deactivate", "none", NULL)
  /\ \E p \in ViewIds :
       /\ views[p].alive
       /\ views[p].comp = EmptyOutletComponent
       /\ Subscribed(views, p)
       /\ deactivateEvents[p] = <<NULL>>
       /\ deactivateEvents[views[p].owner] = <<NULL>>
       /\ \E q \in ViewIds : views[q] = Destroyed

Constructed(o) ==
  IF o = 0 THEN TRUE ELSE views[o].alive /\ views[o].comp = EmptyOutletComponent

\* C16: from its construction, before any call can reach it, to its
\* destruction, the registry's entry for the outlet's name ("primary" when
\* it has no name) in its parent scope refers to the outlet, and its
\* destruction removes the entry of that name.
C16_RegisteredWhileConstructed ==
  /\ [](\A o \in OutletIds :
          Constructed(o) => Registered(parentContexts(o), name(o)) = {o})
  /\ [][\A p \in ViewIds :
          (Constructed(p) /\ ~views'[p].alive) =>
             \A e \in registry' :
               ~(e.scope = parentContexts(p) /\ e.name = name(p))]_vars

\* ------------------------------------------------------------------ C17
\* C17: the injector activateWith builds answers, for every token and
\* not-found value, ActivatedRoute with the route the outlet was just
\* activated with, ChildrenOutletContexts with the children scope of the
\* context of the outlet's name, where the outlet of a proxy created with it
\* registers, and any other token with what the parent injector answers for
\* the same token and not-found value.
C17_InjectorAnswers ==
  [][\A o \in OutletIds, r \in Routes :
       (activated[o] = NULL /\ lastCall'.err = "none" /\ CallsActivateWith(o, r)) =>
          /\ activatedRoute'[o] = r
          /\ \A token \in Tokens, notFoundValue \in NotFoundValues :
               OutletInjectorGet(injectors'[nextView], token, notFoundValue) =
                 IF token = "ActivatedRoute"
                 THEN Answer("OutletInjector", token, r)
                 ELSE IF token = "ChildrenOutletContexts"
                      THEN Answer("OutletInjector", token,
                                  ChildrenOf(parentContexts(o), name(o)))
                      ELSE ParentGet(token, notFoundValue)
          /\ RouteComponent(r) = EmptyOutletComponent =>
               [scope |-> ChildrenOf(parentContexts(o), name(o)),
                name |-> PRIMARY_OUTLET, outlet |-> nextView] \in registry']_vars

\* A nested outlet has just created a view whose injector answers with the
\* outlet's route and with the scope below the nested outlet's name.
C17_Witness ==
  /\ lastCall = Ended("activateWith", "none", NULL)
  /\ \E v \in ViewIds :
       /\ views[v].alive
       /\ views[v].owner # 0
       /\ activated[views[v].owner] = v
       /\ injectors[v].route = activatedRoute[views[v].owner]
       /\ injectors[v].childContexts = <<"aux", PRIMARY_OUTLET, PRIMARY_OUTLET>>

\* ------------------------------------------------------------------ C18
\* C18: after any sequence of activateWith, deactivate, detach and attach
\* calls, attach being callable in any state, the outlet's container holds
\* exactly the activated view when the outlet is Active and no view when it
\* is Inactive.
C18_ContainerHoldsActivatedView ==
  \A o \in OutletIds :
    Constructed(o) =>
       location[o] = IF activated[o] # NULL THEN <<activated[o]>> ELSE <<>>

C20_DetachAttachSilent ==
  /\ [][\A o \in OutletIds, h \in ViewIds :
          (lastCall'.op = "detach" /\ activated[o] = h /\ Detach(o)) =>
             /\ activateEvents' = NoEvents
             /\ deactivateEvents' = NoEvents
             /\ views[h].alive
             /\ views' = views]_vars
  /\ [][\A o \in OutletIds, h \in ViewIds, r \in Routes :
          CallsAttach(o, h, r) =>
             /\ activateEvents' = NoEvents
             /\ deactivateEvents' = NoEvents
             /\ views[h].alive
             /\ views' = views]_vars

\* A real view that was announced once is back in the container it was
\* detached from, and the attach emitted nothing.
C20_Witness ==
  /\ lastCall = Ended("attach", "none", NULL)
  /\ activateEvents = NoEvents
  /\ deactivateEvents = NoEvents
  /\ \E o \in OutletIds :
       /\ activated[o] # NULL
       /\ views[activated[o]].alive
       /\ views[activated[o]].comp # EmptyOutletComponent
       /\ InSeq(location[o], activated[o])

====
